---- MODULE Spec2Model ----
(***************************************************************************)
(* A model of the prompt engine of ahum/dialoguer: the four prompts of     *)
(* src/prompts.rs (Confirmation, Input, PasswordInput, FileInput), the     *)
(* path completer of src/completers/path.rs and the escaping functions of  *)
(* src/tools.rs.  One behaviour of the model is one call: Init picks the   *)
(* program that runs and its configuration, the actions are the steps of   *)
(* that call.  Strings are sequences of one-character strings.             *)
(***************************************************************************)
EXTENDS Integers, Sequences, FiniteSets, TLC

\* ---------------------------------------------------------------- bounds
\* terminal reads allowed in one call
MaxReads == 3
\* length of a line typed at an Input or PasswordInput prompt
MaxLen == 2
\* validators registered with validate_with
MaxValidators == 2
\* entries a directory listing can hold
MaxEntries == 3
\* length of the string handed to escape_path
MaxStrLen == 2
\* length of the fragment handed to complete_path
MaxFragLen == 3
\* length of the separator handed to wrap_sep_string
MaxSepLen == 2
\* length of the string handed to wrap_sep_string
MaxWrapLen == 3

\* ------------------------------------------------------- general helpers
None == <<>>
Some(x) == <<x>>

SeqsUpTo(S, n) == UNION {[1..k -> S] : k \in 0..n}

Front(s) == SubSeq(s, 1, Len(s) - 1)

Last(s) == s[Len(s)]

Range(s) == {s[i] : i \in 1..Len(s)}

\* the injective sequences over S of length at most n
ListingsOf(S, n) == {s \in SeqsUpTo(S, n) : \A i, j \in 1..Len(s) : s[i] = s[j] => i = j}

NoResult == [kind |-> "none", val |-> "none"]

Ok(v) == [kind |-> "Ok", val |-> v]

\* an io::Error carried back by the ? operator
Err == [kind |-> "Err", val |-> "io"]

\* a panic (unwrap of None or Err, arithmetic overflow): the call unwinds
Panic(why) == [kind |-> "panic", val |-> why]

NoDraw == [op |-> "none", arg |-> None]

Draw(op, arg) == [op |-> op, arg |-> arg]

NoState == [path |-> None, entries |-> <<>>, selected |-> None]

VARIABLES prog, cfg, pc, nreads, last, screen, draws, vcalls, password, state, depth, result

vars == <<prog, cfg, pc, nreads, last, screen, draws, vcalls, password, state, depth, result>>

\* what every call starts from, whatever the program
Start(p, c, at) ==
    /\ prog = p
    /\ cfg = c
    /\ pc = at
    /\ nreads = 0
    /\ last = "none"
    /\ screen = NoDraw
    /\ draws = 0
    /\ vcalls = <<>>
    /\ password = None
    /\ state = NoState
    /\ depth = 0
    /\ result = NoResult

\* the call ends with r
Return(r) ==
    /\ pc' = "done"
    /\ result' = r

\* ------------------------------------------------------------ Confirmation
\* characters read_char can deliver
Chars == {"y", "Y", "n", "N", "\n", "\r", "x", " "}

ConfirmationConfigs == [default : BOOLEAN, show_default : BOOLEAN]

InitConfirmation == \E c \in ConfirmationConfigs : Start("Confirmation", c, "prompt")

\* the match of interact_on: None stands for the `continue` arm
ConfirmationMatch_swapped(input, default) ==
    CASE input \in {"y", "Y"} -> Some(TRUE)
      [] input \in {"n", "N"} -> Some(FALSE)
      [] input \in {"\n", "\r"} -> Some(TRUE)
      [] OTHER -> None

ConfirmationMatch(input, default) ==
    CASE input \in {"y", "Y"} -> Some(TRUE)
      [] input \in {"n", "N"} -> Some(FALSE)
      [] input \in {"\n", "\r"} -> Some(default)
      [] OTHER -> None

\* where the `continue` of the `_` arm leaves the call: at read_char, the
\* first statement of the loop; the prompt is drawn before the loop
ContinueArm_redraw(input) == "prompt"

ContinueArm(input) == "read"

\* render.confirmation_prompt(..)?
ConfirmationPrompt ==
    /\ prog = "Confirmation"
    /\ pc = "prompt"
    /\ \/ /\ screen' = Draw("confirmation_prompt",
                            IF cfg.show_default THEN Some(cfg.default) ELSE None)
          /\ draws' = draws + 1
          /\ pc' = "read"
          /\ UNCHANGED result
       \/ /\ Return(Err)
          /\ UNCHANGED <<screen, draws>>
    /\ UNCHANGED <<prog, cfg, nreads, last, vcalls, password, state, depth>>

\* one iteration of the loop: read_char()?, the match, and on a decision
\* clear_line()?, confirmation_prompt_selection(..)? and the return
ConfirmationReadChar ==
    /\ prog = "Confirmation"
    /\ pc = "read"
    /\ nreads < MaxReads
    /\ \/ /\ Return(Err)
          /\ UNCHANGED <<nreads, last, screen, draws>>
       \/ \E input \in Chars :
            LET rv == ConfirmationMatch(input, cfg.default) IN
            /\ nreads' = nreads + 1
            /\ last' = input
            /\ IF rv = None
               THEN /\ draws' = 0
                    /\ pc' = ContinueArm(input)
                    /\ UNCHANGED <<result, screen>>
               ELSE \/ /\ screen' = Draw("confirmation_prompt_selection", rv)
                       /\ draws' = 1
                       /\ Return(Ok(rv[1]))
                    \/ /\ Return(Err)
                       /\ draws' = 0
                       /\ UNCHANGED screen
    /\ UNCHANGED <<prog, cfg, vcalls, password, state, depth>>

\* ------------------------------------------------------------------- Input
\* characters of a typed line
LineChars == {"1", "a"}

Lines == SeqsUpTo(LineChars, MaxLen)

\* the target types T the model instantiates Input<T> with
Types == {"String", "u32"}

Digits == {"1"}

RECURSIVE DecimalValue(_)
DecimalValue(s) ==
    IF s = <<>> THEN 0 ELSE 10 * DecimalValue(Front(s)) + 1

\* input.parse::<T>(): Some(value), or None for Err
Parse(T, s) ==
    IF T = "String" THEN Some(s)
    ELSE IF s # <<>> /\ Range(s) \subseteq Digits THEN Some(DecimalValue(s)) ELSE None

\* the validators a caller registers: "short" rejects a value of more than
\* one character, "no1" a value that holds the character 1, "nonempty" the
\* empty value
Validators == {"short", "no1", "nonempty"}

\* validator.validate(value): None for Ok(()), Some(reason) for Err
Validate(v, value) ==
    CASE v = "short" -> IF Len(value) > 1 THEN Some("too long") ELSE None
      [] v = "no1" -> IF "1" \in Range(value) THEN Some("has 1") ELSE None
      [] v = "nonempty" -> IF value = <<>> THEN Some("empty") ELSE None

\* validate_with: the new closure holds the old one and the new validator
ValidateWith(old, v) == Append(old, v)

RECURSIVE ChainsOf(_)
ChainsOf(n) ==
    IF n = 0 THEN {<<>>}
    ELSE LET shorter == ChainsOf(n - 1) IN
         shorter \cup {ValidateWith(c, v) : c \in shorter, v \in Validators}

\* the closure built by validate_with, called on value: the old closure
\* first, and the new validator only if the old one returned None.
\* err is the closure's result, calls the validators run, in order.
RECURSIVE CallValidator_newfirst(_, _)
CallValidator_newfirst(chain, value) ==
    IF chain = <<>> THEN [err |-> None, calls |-> <<>>]
    ELSE LET v == Last(chain)
             r == Validate(v, value) IN
         IF r # None THEN [err |-> r, calls |-> <<v>>]
         ELSE LET old == CallValidator_newfirst(Front(chain), value) IN
              [err |-> old.err, calls |-> <<v>> \o old.calls]

RECURSIVE CallValidator(_, _)
CallValidator(chain, value) ==
    IF chain = <<>> THEN [err |-> None, calls |-> <<>>]
    ELSE LET old == CallValidator(Front(chain), value)
             v == Last(chain) IN
         IF old.err # None THEN old
         ELSE [err |-> Validate(v, value), calls |-> Append(old.calls, v)]

\* the defaults a caller can configure for T
DefaultsOf(T) == IF T = "String" THEN {<<"a", "1">>} ELSE {11}

\* x.to_string() of a value of T
RECURSIVE to_string(_, _)
to_string(T, x) ==
    IF T = "String" THEN x
    ELSE IF x < 10 THEN <<"1">> ELSE Append(to_string(T, x \div 10), "1")

InputConfigs ==
    UNION {[T : {T}, default : {None} \cup {Some(d) : d \in DefaultsOf(T)},
            show_default : BOOLEAN, permit_empty : BOOLEAN,
            validator : ChainsOf(MaxValidators)] : T \in Types}

InitInput == \E c \in InputConfigs : Start("Input", c, "prompt")

\* render.input_prompt(..)? at the top of the loop
InputPrompt ==
    /\ prog = "Input"
    /\ pc = "prompt"
    /\ \/ /\ screen' = Draw("input_prompt",
                            IF cfg.show_default /\ cfg.default # None
                            THEN Some(to_string(cfg.T, cfg.default[1])) ELSE None)
          /\ draws' = draws + 1
          /\ pc' = "read"
          /\ UNCHANGED result
       \/ /\ Return(Err)
          /\ UNCHANGED <<screen, draws>>
    /\ UNCHANGED <<prog, cfg, nreads, last, vcalls, password, state, depth>>

\* the empty-line test of interact_on: "default", "continue" or "fall"
\* (fall through to the validators)
OnEmpty_validated(input, c) ==
    IF input # <<>> THEN "fall"
    ELSE IF c.default # None /\ CallValidator(c.validator, to_string(c.T, c.default[1])).err = None
         THEN "default"
         ELSE IF ~c.permit_empty THEN "continue" ELSE "fall"

OnEmpty(input, c) ==
    IF input # <<>> THEN "fall"
    ELSE IF c.default # None THEN "default"
         ELSE IF ~c.permit_empty THEN "continue" ELSE "fall"

\* whether the loop runs the validator closure on the line it read
RunsValidator_never(input, c) == FALSE

RunsValidator(input, c) == OnEmpty(input, c) = "fall" /\ c.validator # <<>>

\* the rest of one iteration once the line is read, with every write
\* succeeding: what is drawn last, what the validators saw, and the value
\* returned (None: the loop continues)
InputStep(input, c) ==
    LET e == OnEmpty(input, c)
        chk == IF RunsValidator(input, c) THEN CallValidator(c.validator, input)
               ELSE [err |-> None, calls |-> <<>>]
        parsed == Parse(c.T, input) IN
    CASE e = "default" ->
           [draw |-> Draw("single_prompt_selection", Some(to_string(c.T, c.default[1]))),
            calls |-> <<>>, rv |-> Some(c.default[1])]
      [] e = "continue" ->
           [draw |-> NoDraw, calls |-> <<>>, rv |-> None]
      [] e = "fall" /\ chk.err # None ->
           [draw |-> Draw("error", chk.err), calls |-> chk.calls, rv |-> None]
      [] e = "fall" /\ chk.err = None /\ parsed # None ->
           [draw |-> Draw("single_prompt_selection", Some(input)),
            calls |-> chk.calls, rv |-> parsed]
      [] OTHER ->
           [draw |-> Draw("error", Some("parse error")), calls |-> chk.calls, rv |-> None]

\* one iteration of the loop after the prompt: read_line()?, add_line, and
\* the body down to its `continue` or `return`
InputReadLine ==
    /\ prog = "Input"
    /\ pc = "read"
    /\ nreads < MaxReads
    /\ \/ /\ Return(Err)
          /\ UNCHANGED <<nreads, last, screen, draws, vcalls>>
       \/ \E input \in Lines :
            LET step == InputStep(input, cfg) IN
            /\ nreads' = nreads + 1
            /\ last' = input
            /\ vcalls' = step.calls
            /\ \/ /\ screen' = step.draw
                  /\ draws' = IF step.draw = NoDraw THEN 0 ELSE 1
                  /\ IF step.rv = None
                     THEN pc' = "prompt" /\ UNCHANGED result
                     ELSE Return(Ok(step.rv[1]))
               \/ /\ Return(Err)
                  /\ screen' = NoDraw
                  /\ draws' = 0
    /\ UNCHANGED <<prog, cfg, password, state, depth>>

\* ----------------------------------------------------------- PasswordInput
\* the error text given to with_confirmation
MismatchErr == "Passwords mismatching"

PasswordConfigs ==
    [allow_empty_password : BOOLEAN, confirmation_prompt : {None, Some(MismatchErr)}]

InitPassword == \E c \in PasswordConfigs : Start("PasswordInput", c, "main_prompt")

\* the position inside prompt_password, called for the main prompt or for
\* the confirmation prompt
PwPc(which, step) ==
    CASE which = "main" /\ step = "prompt" -> "main_prompt"
      [] which = "main" /\ step = "read" -> "main_read"
      [] which = "confirm" /\ step = "prompt" -> "confirm_prompt"
      [] which = "confirm" /\ step = "read" -> "confirm_read"

\* the test that ends the loop of prompt_password
PromptPasswordReturns_always(input, allow_empty_password) == TRUE

PromptPasswordReturns(input, allow_empty_password) ==
    input # <<>> \/ allow_empty_password

\* interact_on once both values are read: the value returned (None: the
\* loop goes round) and where the call continues
AfterConfirmation_reask(first, pw2) ==
    IF first = pw2 THEN [rv |-> Some(first), next |-> "done"]
    ELSE [rv |-> None, next |-> "confirm_prompt"]

AfterConfirmation_first(first, pw2) == [rv |-> Some(first), next |-> "done"]

AfterConfirmation(first, pw2) ==
    IF first = pw2 THEN [rv |-> Some(first), next |-> "done"]
    ELSE [rv |-> None, next |-> "main_prompt"]

\* render.password_prompt(prompt)? at the top of prompt_password's loop
PasswordPrompt ==
    /\ prog = "PasswordInput"
    /\ \E which \in {"main", "confirm"} :
         /\ pc = PwPc(which, "prompt")
         /\ \/ /\ screen' = Draw("password_prompt", Some(which))
               /\ draws' = draws + 1
               /\ pc' = PwPc(which, "read")
               /\ UNCHANGED result
            \/ /\ Return(Err)
               /\ UNCHANGED <<screen, draws>>
    /\ UNCHANGED <<prog, cfg, nreads, last, vcalls, password, state, depth>>

\* read_secure_line()?, add_line and the test of prompt_password; when it
\* returns, the rest of interact_on's iteration down to the next
\* prompt_password call or the return
PasswordReadSecureLine ==
    /\ prog = "PasswordInput"
    /\ nreads < MaxReads
    /\ \E which \in {"main", "confirm"} :
         /\ pc = PwPc(which, "read")
         /\ \/ /\ Return(Err)
               /\ UNCHANGED <<nreads, last, screen, draws, password>>
            \/ \E input \in Lines :
                 /\ nreads' = nreads + 1
                 /\ last' = input
                 /\ IF ~PromptPasswordReturns(input, cfg.allow_empty_password)
                    THEN /\ pc' = PwPc(which, "prompt")
                         /\ draws' = 0
                         /\ UNCHANGED <<screen, password, result>>
                    ELSE IF which = "main" /\ cfg.confirmation_prompt # None
                    THEN /\ password' = Some(input)
                         /\ pc' = "confirm_prompt"
                         /\ draws' = 0
                         /\ UNCHANGED <<screen, result>>
                    ELSE LET first == IF which = "main" THEN input ELSE password[1]
                             after == IF which = "main"
                                      THEN [rv |-> Some(input), next |-> "done"]
                                      ELSE AfterConfirmation(first, input) IN
                         \/ /\ after.rv # None
                            /\ screen' = Draw("password_prompt_selection", None)
                            /\ draws' = 1
                            /\ password' = Some(first)
                            /\ Return(Ok(after.rv[1]))
                         \/ /\ after.rv = None
                            /\ screen' = Draw("error", cfg.confirmation_prompt)
                            /\ draws' = 1
                            /\ password' = None
                            /\ pc' = after.next
                            /\ UNCHANGED result
                         \/ /\ Return(Err)
                            /\ draws' = 0
                            /\ UNCHANGED <<screen, password>>
    /\ UNCHANGED <<prog, cfg, vcalls, state, depth>>

\* --------------------------------------------------------------- FileInput
\* the directory the caller configures as default
Home == <<<<"h">>>>

\* the entries the filesystem may hold in that directory: a file, a file
\* with a space in its name, a directory, and a file whose name is not UTF-8
DirUniverse ==
    {[name |-> <<"a">>, is_dir |-> FALSE, utf8 |-> TRUE],
     [name |-> <<"a", " ">>, is_dir |-> FALSE, utf8 |-> TRUE],
     [name |-> <<"d">>, is_dir |-> TRUE, utf8 |-> TRUE],
     [name |-> <<"?">>, is_dir |-> FALSE, utf8 |-> FALSE]}

\* what one read_dir of it can return: any entries, in any order
DirListings == ListingsOf(DirUniverse, MaxEntries)

\* keys read_key can deliver; Tab is Char('\t')
Keys == {"Tab", "ArrowDown", "ArrowUp", "Escape", "Enter", "Char_a"}

FileInputConfigs == [default : {None, Some(Home)}, overflow_checks : BOOLEAN]

InitFileInput == \E c \in FileInputConfigs : Start("FileInput", c, "start")

\* the first state interact_on hands to inner_loop
FirstState_listed(path) == [path |-> path, entries |-> <<>>, selected |-> Some(0)]

FirstState(path) == [path |-> path, entries |-> <<>>, selected |-> None]

\* the keys inner_loop's match has an arm for, apart from `_`
IsTab_up(k) == k \in {"Tab", "ArrowUp"}

IsTab_anychar(k) == k \in {"Tab", "Char_a"}

IsTab(k) == k = "Tab"

\* the index computed in the Tab arm from the old selection and the new
\* entries' length n: Some(index), or None when `entries.len() - 1`
\* overflows in a build with overflow checks.  Without the checks the
\* difference wraps to usize::MAX, which `as u32` cuts to u32::MAX, and no
\* u32 is greater than that: the index is i + 1.  (i + 1 itself stays far
\* below u32::MAX: i grows by at most one per key read.)
NextIndex_nowrap(selected, n, overflow_checks) ==
    IF selected = None THEN Some(0)
    ELSE IF n = 0 /\ overflow_checks THEN None
    ELSE Some(selected[1] + 1)

NextIndex(selected, n, overflow_checks) ==
    IF selected = None THEN Some(0)
    ELSE IF n = 0 /\ overflow_checks THEN None
    ELSE LET ni == selected[1] + 1 IN
         IF n = 0 THEN Some(ni)
         ELSE IF ni > n - 1 THEN Some(0) ELSE Some(ni)

\* rd.map(|r| r.unwrap()).collect(): the entries in the order read_dir
\* yields them, nothing added and nothing moved
Collect_dots(rd) ==
    <<[name |-> <<".">>, is_dir |-> TRUE, utf8 |-> TRUE],
      [name |-> <<".", ".">>, is_dir |-> TRUE, utf8 |-> TRUE]>> \o rd

Collect(rd) == rd

\* what a key that is not Tab makes inner_loop return
OtherKey_entry(st, k) ==
    IF k = "Enter" /\ st.selected # None /\ st.selected[1] < Len(st.entries)
    THEN Ok(Append(st.path, st.entries[st.selected[1] + 1].name))
    ELSE Ok(st.path)

OtherKey(st, k) == Ok(st.path)

\* the state the Tab arm hands to the next inner_loop: the path of the old
\* state, the entries just read and the index computed
Update_descend(st, entries, index) ==
    [path |-> IF index < Len(entries) /\ entries[index + 1].is_dir
              THEN Append(st.path, entries[index + 1].name) ELSE st.path,
     entries |-> entries, selected |-> Some(index)]

Update(st, entries, index) ==
    [path |-> st.path, entries |-> entries, selected |-> Some(index)]

\* self.inner_loop(term, ttr, update) in the Tab arm: a call, one more
\* activation of inner_loop on top of the d that are open
Recurse_loop(d) == d

Recurse(d) == d + 1

\* interact_on: the default is unwrapped and inner_loop entered
FileInputInteractOn ==
    /\ prog = "FileInput"
    /\ pc = "start"
    /\ IF cfg.default = None
       THEN /\ Return(Panic("unwrap"))
            /\ UNCHANGED <<state, depth>>
       ELSE /\ state' = FirstState(cfg.default[1])
            /\ depth' = 1
            /\ pc' = "read_key"
            /\ UNCHANGED result
    /\ UNCHANGED <<prog, cfg, nreads, last, screen, draws, vcalls, password>>

\* term.read_key().unwrap() at the top of inner_loop
InnerLoopReadKey ==
    /\ prog = "FileInput"
    /\ pc = "read_key"
    /\ nreads < MaxReads
    /\ \/ /\ Return(Panic("read_key"))
          /\ UNCHANGED <<nreads, last, draws>>
       \/ \E k \in Keys :
            /\ nreads' = nreads + 1
            /\ last' = k
            /\ draws' = 0
            /\ pc' = "render"
            /\ UNCHANGED result
    /\ UNCHANGED <<prog, cfg, screen, vcalls, password, state, depth>>

\* self.render(ttr, &state)?: clear, prompt, and one selection line per
\* entry, whose name is unwrapped as UTF-8
InnerLoopRender ==
    /\ prog = "FileInput"
    /\ pc = "render"
    /\ \/ /\ \A i \in 1..Len(state.entries) : state.entries[i].utf8
          /\ screen' = Draw("file_input", Some([entries |-> state.entries,
                                               selected |-> state.selected]))
          /\ draws' = draws + 1
          /\ pc' = "match"
          /\ UNCHANGED result
       \/ /\ \E i \in 1..Len(state.entries) : ~state.entries[i].utf8
          /\ Return(Panic("to_str"))
          /\ UNCHANGED <<screen, draws>>
       \/ /\ Return(Err)
          /\ UNCHANGED <<screen, draws>>
    /\ UNCHANGED <<prog, cfg, nreads, last, vcalls, password, state, depth>>

\* the match on the key: the Tab arm lists the directory again, computes
\* the index and calls inner_loop with the new state; `_` returns
InnerLoopMatch ==
    /\ prog = "FileInput"
    /\ pc = "match"
    /\ IF IsTab(last)
       THEN \/ /\ Return(Panic("read_dir"))
               /\ UNCHANGED <<state, depth>>
            \/ \E rd \in DirListings :
                 LET entries == Collect(rd)
                     index == NextIndex(state.selected, Len(entries), cfg.overflow_checks) IN
                 IF index = None
                 THEN /\ Return(Panic("overflow"))
                      /\ UNCHANGED <<state, depth>>
                 ELSE /\ state' = Update(state, entries, index[1])
                      /\ depth' = Recurse(depth)
                      /\ pc' = "read_key"
                      /\ UNCHANGED result
       ELSE /\ Return(OtherKey(state, last))
            /\ UNCHANGED <<state, depth>>
    /\ UNCHANGED <<prog, cfg, nreads, last, screen, draws, vcalls, password>>

\* ---------------------------------------------------------------- tools.rs
\* the backtick character, which a TLA+ string cannot hold
Backtick == "backtick"

\* the character class of escape_path's regular expression
EscapeClass ==
    {"!", "(", ")", "<", ">", ",", "?", "]", "[", "{", "}", " ", "\\", "'", "\"",
     Backtick, "*", "^", "#", "|", "$", "&", ";"}

\* re.replace_all(path, "\\$c") for a one-character class: every match,
\* left to right, becomes a backslash and the character captured as c
RECURSIVE ReplaceAll(_, _)
ReplaceAll(class, path) ==
    IF path = <<>> THEN <<>>
    ELSE (IF Head(path) \in class THEN <<"\\", Head(path)>> ELSE <<Head(path)>>)
         \o ReplaceAll(class, Tail(path))

escape_path_nospace(path) == ReplaceAll(EscapeClass \ {" "}, path)

escape_path(path) == ReplaceAll(EscapeClass, path)

\* the loop of wrap_sep_string over the characters left in s
RECURSIVE WrapScan_allspaces(_, _, _, _, _)
WrapScan_allspaces(sep, s, token, met_subsep, previous_subsep) ==
    IF s = <<>> THEN token
    ELSE LET c == Head(s)
             t1 == IF <<c>> = sep THEN Append(token, "\\") ELSE token
             t2 == IF c = " " /\ sep = <<>> THEN Append(t1, "\\") ELSE t1 IN
         WrapScan_allspaces(sep, Tail(s), Append(t2, c), met_subsep, previous_subsep)

RECURSIVE WrapScan(_, _, _, _, _)
WrapScan(sep, s, token, met_subsep, previous_subsep) ==
    IF s = <<>> THEN token
    ELSE LET c == Head(s)
             sub == sep = <<>> /\ c \in {Backtick, "\""}
             met == IF sub /\ ~met_subsep THEN TRUE
                    ELSE IF sub /\ c = previous_subsep THEN FALSE
                    ELSE met_subsep
             prev == IF sub /\ ~met_subsep THEN c
                     ELSE IF sub /\ c = previous_subsep THEN "N"
                     ELSE previous_subsep
             t1 == IF <<c>> = sep THEN Append(token, "\\") ELSE token
             t2 == IF c = " " /\ sep = <<>> /\ ~met THEN Append(t1, "\\") ELSE t1 IN
         WrapScan(sep, Tail(s), Append(t2, c), met, prev)

wrap_sep_string_unescaped(sep, s) == sep \o s \o sep

wrap_sep_string(sep, s) == sep \o WrapScan(sep, s, <<>>, FALSE, "N") \o sep

\* characters of the separators and of the strings handed to wrap_sep_string
SepChars == {"'", "\""}

WrapChars == {"'", "\"", Backtick, " ", "\\", "a"}

InitWrapSepString ==
    \E sep \in SeqsUpTo(SepChars, MaxSepLen), s \in SeqsUpTo(WrapChars, MaxWrapLen) :
        Start("wrap_sep_string", [sep |-> sep, s |-> s], "call")

WrapSepString ==
    /\ prog = "wrap_sep_string"
    /\ pc = "call"
    /\ Return(Ok(wrap_sep_string(cfg.sep, cfg.s)))
    /\ UNCHANGED <<prog, cfg, nreads, last, screen, draws, vcalls, password, state, depth>>

\* characters of the strings handed to escape_path
PathChars == EscapeClass \cup {"a", "/"}

InitEscapePath ==
    \E s \in SeqsUpTo(PathChars, MaxStrLen) : Start("escape_path", [path |-> s], "call")

EscapePath ==
    /\ prog = "escape_path"
    /\ pc = "call"
    /\ Return(Ok(escape_path(cfg.path)))
    /\ UNCHANGED <<prog, cfg, nreads, last, screen, draws, vcalls, password, state, depth>>

\* ------------------------------------------------------- completers/path.rs
\* std::path::is_separator and MAIN_SEPARATOR on unix
is_separator(c) == c = "/"

MAIN_SEPARATOR == "/"

\* path.rfind(is_separator): the last position of a separator, 0 for None
rfind(path) ==
    LET at == {i \in 1..Len(path) : is_separator(path[i])} IN
    IF at = {} THEN 0 ELSE CHOOSE i \in at : \A j \in at : j <= i

split_path(path) ==
    LET pos == rfind(path) IN
    IF pos > 0
    THEN [dir |-> Some(SubSeq(path, 1, pos)), file |-> SubSeq(path, pos + 1, Len(path))]
    ELSE [dir |-> None, file |-> path]

starts_with(s, prefix) ==
    Len(prefix) <= Len(s) /\ SubSeq(s, 1, Len(prefix)) = prefix

\* str::replace(name, "//", "/")
RECURSIVE str_replace(_)
str_replace(s) ==
    IF s = <<>> THEN <<>>
    ELSE IF Len(s) >= 2 /\ s[1] = "/" /\ s[2] = "/"
         THEN <<"/">> \o str_replace(SubSeq(s, 3, Len(s)))
         ELSE <<s[1]>> \o str_replace(Tail(s))

\* the names between the separators of a path
RECURSIVE Components(_)
Components(p) ==
    LET pos == rfind(p) IN
    IF p = <<>> THEN <<>>
    ELSE IF pos = 0 THEN <<p>>
    ELSE IF pos = Len(p) THEN Components(Front(p))
    ELSE Append(Components(SubSeq(p, 1, pos - 1)), SubSeq(p, pos + 1, Len(p)))

\* the entries directory d of the current directory may hold
SubUniverse ==
    {[name |-> <<"a", "a">>, is_dir |-> FALSE, utf8 |-> TRUE],
     [name |-> <<"d">>, is_dir |-> TRUE, utf8 |-> TRUE]}

SubListings == ListingsOf(SubUniverse, MaxEntries)

DirD == [name |-> <<"d">>, is_dir |-> TRUE, utf8 |-> TRUE]

\* read_dir(p) in the filesystem fs: Some(listing), or None for Err.  The
\* current directory lists fs.cwd and its directory d lists fs.sub; a
\* directory inside d is empty and nothing else exists.
read_dir(fs, p) ==
    LET comps == Components(p) IN
    CASE comps = <<>> \/ comps = <<<<".">>>> -> Some(fs.cwd)
      [] comps = <<<<"d">>>> /\ DirD \in Range(fs.cwd) -> Some(fs.sub)
      [] /\ Len(comps) = 2
         /\ comps[1] = <<"d">>
         /\ DirD \in Range(fs.cwd)
         /\ \E e \in Range(fs.sub) : e.name = comps[2] /\ e.is_dir -> Some(<<>>)
      [] OTHER -> None

\* the separator complete_path quotes with: always the empty string
path_sep == <<>>

\* the Completion pushed for an entry that passed the filters
CompletionOf(e, dir_orig) ==
    LET named == IF dir_orig # <<>> THEN dir_orig \o <<MAIN_SEPARATOR>> \o e.name
                 ELSE e.name
        display == IF dir_orig # <<>> THEN Some(e.name) ELSE None
        collapsed == str_replace(named)
        escaped == IF path_sep = <<>> THEN escape_path(collapsed) ELSE collapsed
        quoted == path_sep # <<>>
        wrapped == IF quoted THEN wrap_sep_string(path_sep, escaped) ELSE escaped IN
    [completion |-> IF e.is_dir /\ quoted THEN Front(wrapped) ELSE wrapped,
     display |-> display,
     suffix |-> IF e.is_dir THEN Some(MAIN_SEPARATOR) ELSE None]

\* the filters of the loop over the entries
Completes(e, file_name, for_dir) ==
    /\ ~(for_dir /\ ~e.is_dir)
    /\ e.utf8
    /\ starts_with(e.name, file_name)

\* the loop over the entries read, in the order read
RECURSIVE CompleteEntries(_, _, _, _)
CompleteEntries(entries, file_name, dir_orig, for_dir) ==
    IF entries = <<>> THEN <<>>
    ELSE (IF Completes(Head(entries), file_name, for_dir)
          THEN <<CompletionOf(Head(entries), dir_orig)>> ELSE <<>>)
         \o CompleteEntries(Tail(entries), file_name, dir_orig, for_dir)

\* complete_path: dir_lookup is computed and the directory read is "."
complete_path(path, for_dir, fs) ==
    LET sp == split_path(path)
        dir_orig == IF sp.dir # None THEN sp.dir[1] ELSE <<>>
        file_name == sp.file
        dir_lookup == IF sp.dir # None THEN sp.dir[1] ELSE <<".">>
        entries == read_dir(fs, <<".">>) IN
    IF entries # None
    THEN CompleteEntries(entries[1], file_name, dir_orig, for_dir)
    ELSE <<>>

\* characters of the fragment to complete
FragChars == {"a", "d", "/"}

\* the fragments: relative paths
Fragments == {s \in SeqsUpTo(FragChars, MaxFragLen) : s = <<>> \/ s[1] # "/"}

CompletePathConfigs ==
    [path : Fragments, for_dir : BOOLEAN, fs : [cwd : DirListings, sub : SubListings]]

InitCompletePath == \E c \in CompletePathConfigs : Start("complete_path", c, "call")

CompletePath ==
    /\ prog = "complete_path"
    /\ pc = "call"
    /\ Return(Ok(complete_path(cfg.path, cfg.for_dir, cfg.fs)))
    /\ UNCHANGED <<prog, cfg, nreads, last, screen, draws, vcalls, password, state, depth>>

Init ==
    \/ InitConfirmation
    \/ InitInput
    \/ InitPassword
    \/ InitFileInput
    \/ InitEscapePath
    \/ InitWrapSepString
    \/ InitCompletePath

Next ==
    \/ ConfirmationPrompt
    \/ ConfirmationReadChar
    \/ InputPrompt
    \/ InputReadLine
    \/ PasswordPrompt
    \/ PasswordReadSecureLine
    \/ FileInputInteractOn
    \/ InnerLoopReadKey
    \/ InnerLoopRender
    \/ InnerLoopMatch
    \/ EscapePath
    \/ WrapSepString
    \/ CompletePath

Spec == Init /\ [][Next]_vars

\* ================================================================ claims
\* helpers of the claims' statements

\* the characters that end a Confirmation
Decisive == {"y", "Y", "n", "N", "\n", "\r"}

\* the answer the contract gives for a decisive character
Answer(c, default) ==
    IF c \in {"y", "Y"} THEN TRUE ELSE IF c \in {"n", "N"} THEN FALSE ELSE default

\* the step of a prompt that reads one unit from the terminal
ReadStep(p) == prog = p /\ nreads' = nreads + 1

\* whether every registered validator accepts the line
AllAccept(line) == \A i \in 1..Len(cfg.validator) : Validate(cfg.validator[i], line) = None

CharCode(c) ==
    CASE c = " " -> 32 [] c = "." -> 46 [] c = "?" -> 63
      [] c = "a" -> 97 [] c = "d" -> 100 [] c = "h" -> 104

RECURSIVE LexLess(_, _)
LexLess(s, t) ==
    IF t = <<>> THEN FALSE
    ELSE IF s = <<>> THEN TRUE
    ELSE IF CharCode(s[1]) # CharCode(t[1]) THEN CharCode(s[1]) < CharCode(t[1])
    ELSE LexLess(Tail(s), Tail(t))

\* "." and ".." first, the real names after them in lexicographic order
DotsThenSorted(es) ==
    /\ Len(es) >= 2
    /\ es[1].name = <<".">>
    /\ es[2].name = <<".", ".">>
    /\ \A i, j \in 3..Len(es) : i < j => LexLess(es[i].name, es[j].name)

\* the entry under the selection, when there is one
HasSelectedEntry == state.selected # None /\ state.selected[1] < Len(state.entries)

SelectedEntry == state.entries[state.selected[1] + 1]

\* ---------------------------------------------------------------------
\* C1: Confirmation.interact_on returns at the first character read that
\* is one of y Y n N newline carriage-return, with true for y/Y, false for
\* n/N and the configured default for newline/carriage-return (or with the
\* error of a failed terminal write); a character outside the set is
\* consumed and the call goes on reading.
C1_ConfirmationDecides ==
    [][ (ReadStep("Confirmation") =>
            IF last' \in Decisive
            THEN pc' = "done" /\ result' \in {Ok(Answer(last', cfg.default)), Err}
            ELSE pc' = "read" /\ result' = NoResult)
        /\ (prog = "Confirmation" /\ result'.kind = "Ok" /\ result.kind # "Ok"
              => nreads' = nreads + 1) ]_vars

C1_Witness ==
    /\ prog = "Confirmation"
    /\ nreads = 3
    /\ last = "\r"
    /\ ~cfg.default
    /\ result = Ok(FALSE)

\* C2: Input.interact_on with a default configured returns the default at
\* an empty line, and no validator runs in that iteration, also when the
\* validators would reject the default.
C2_EmptyLineReturnsDefault ==
    [][ ReadStep("Input") /\ last' = <<>> /\ cfg.default # None =>
          /\ pc' = "done"
          /\ result' \in {Ok(cfg.default[1]), Err}
          /\ vcalls' = <<>> ]_vars

C2_Witness ==
    /\ prog = "Input"
    /\ result.kind = "Ok"
    /\ last = <<>>
    /\ cfg.default # None
    /\ result.val = cfg.default[1]
    /\ vcalls = <<>>
    /\ ~AllAccept(to_string(cfg.T, cfg.default[1]))

\* C3: Input.interact_on never returns a value at a line that a validator
\* rejects or that does not parse into T: it prompts again.  A value
\* returned at a line (other than the default at an empty line) is the
\* parse of that line, every registered validator ran on it and accepted
\* it; and the call does return at such a line unless the line is empty
\* and an empty line is not permitted.
C3_RejectedLineNeverReturns ==
    [][ ReadStep("Input") /\ ~(last' = <<>> /\ cfg.default # None) =>
          LET line == last'
              good == AllAccept(line) /\ Parse(cfg.T, line) # None IN
          /\ result'.kind = "Ok" =>
                /\ good
                /\ result'.val = Parse(cfg.T, line)[1]
                /\ vcalls' = cfg.validator
          /\ ~good => (pc' = "prompt" /\ result' = NoResult) \/ result' = Err
          /\ good /\ ~(line = <<>> /\ ~cfg.permit_empty) => pc' = "done" ]_vars

C3_Witness ==
    /\ prog = "Input"
    /\ pc = "prompt"
    /\ nreads = 2
    /\ last # <<>>
    /\ ~AllAccept(last)
    /\ Parse(cfg.T, last) # None
    /\ screen.op = "error"
    /\ result = NoResult

\* C4: PasswordInput.interact_on with a confirmation prompt: once the first
\* value and the confirmation value are read, equal values end the call
\* with the first value; unequal values show the mismatch error, return
\* nothing, drop both values, and the next read is under the main prompt.
C4_ConfirmationOfPassword ==
    [][ /\ (ReadStep("PasswordInput") /\ pc = "confirm_read"
              /\ PromptPasswordReturns(last', cfg.allow_empty_password) =>
                IF last' = password[1]
                THEN pc' = "done" /\ result' \in {Ok(password[1]), Err}
                ELSE \/ /\ pc' = "main_prompt"
                        /\ password' = None
                        /\ screen' = Draw("error", Some(MismatchErr))
                        /\ result' = NoResult
                     \/ result' = Err)
        /\ (prog = "PasswordInput" /\ pc = "main_prompt" /\ pc' # pc
              => pc' \in {"main_read", "done"}) ]_vars

C4_Witness ==
    /\ prog = "PasswordInput"
    /\ pc = "main_prompt"
    /\ nreads = 2
    /\ last # <<>>
    /\ password = None
    /\ screen = Draw("error", Some(MismatchErr))
    /\ result = NoResult

\* C5 as claimed: when FileInput's interact starts, before any key, the
\* directory is the default path, the entries are "." and ".." and then
\* the directory's names in order, and index 0 is selected.
C5_Original ==
    prog = "FileInput" /\ pc = "read_key" /\ nreads = 0 =>
        /\ state.path = cfg.default[1]
        /\ DotsThenSorted(state.entries)
        /\ state.selected = Some(0)

\* C5: when FileInput's interact starts with a default configured, before
\* any key, the directory is the default path, the entry list is empty and
\* no index is selected.
C5_InitialState ==
    prog = "FileInput" /\ pc = "read_key" /\ nreads = 0 =>
        /\ cfg.default # None
        /\ state = [path |-> cfg.default[1], entries |-> <<>>, selected |-> None]

C5_Witness ==
    /\ prog = "FileInput"
    /\ pc = "read_key"
    /\ nreads = 0
    /\ depth = 1

\* C6 as claimed: on Tab or Down-arrow the browser goes on, the directory
\* is listed again and the selection moves forward by one, from the last
\* index to 0 (a failed listing aside).
C6_Original ==
    [][ /\ prog = "FileInput"
        /\ pc = "match"
        /\ last \in {"Tab", "ArrowDown"}
        /\ state.selected # None
        /\ result'.kind # "panic"
        => /\ pc' = "read_key"
           /\ result' = NoResult
           /\ state'.path = state.path
           /\ state'.selected =
                Some(IF state.selected[1] + 1 >= Len(state'.entries)
                     THEN 0 ELSE state.selected[1] + 1) ]_vars

\* C6: on Tab the call does not return: the directory is listed again and,
\* when the new listing is not empty, the selection moves forward by one
\* (to 0 when nothing was selected), from the last index of the new
\* listing or beyond to 0.  On Down-arrow the call returns the current
\* directory.
C6_TabMovesForward ==
    [][ prog = "FileInput" /\ pc = "match" =>
          /\ last = "Tab" =>
               /\ result'.kind \in {"none", "panic"}
               /\ result'.kind = "none" =>
                    /\ pc' = "read_key"
                    /\ state'.path = state.path
                    /\ state'.entries \in DirListings
                    /\ Len(state'.entries) > 0 =>
                         state'.selected =
                           Some(IF state.selected = None
                                   \/ state.selected[1] + 1 > Len(state'.entries) - 1
                                THEN 0 ELSE state.selected[1] + 1)
          /\ last = "ArrowDown" => pc' = "done" /\ result' = Ok(state.path) ]_vars

C6_Witness ==
    /\ prog = "FileInput"
    /\ pc = "read_key"
    /\ nreads = 3
    /\ last = "Tab"
    /\ Len(state.entries) = 2
    /\ state.selected = Some(0)
    /\ screen.op = "file_input"
    /\ screen.arg[1].selected = Some(1)

\* C7 as claimed: on Up-arrow or Escape the browser goes on, the directory
\* is listed again and the selection moves backward by one, from index 0
\* to the last index (a failed listing aside).
C7_Original ==
    [][ /\ prog = "FileInput"
        /\ pc = "match"
        /\ last \in {"ArrowUp", "Escape"}
        /\ state.selected # None
        /\ result'.kind # "panic"
        => /\ pc' = "read_key"
           /\ result' = NoResult
           /\ state'.selected =
                Some(IF state.selected[1] = 0
                     THEN Len(state'.entries) - 1 ELSE state.selected[1] - 1) ]_vars

\* C7: on Up-arrow or Escape the call returns the current directory; the
\* browser state is left as it was.
C7_UpAndEscapeReturn ==
    [][ prog = "FileInput" /\ pc = "match" /\ last \in {"ArrowUp", "Escape"} =>
          /\ pc' = "done"
          /\ result' = Ok(state.path)
          /\ state' = state ]_vars

C7_Witness ==
    /\ prog = "FileInput"
    /\ pc = "done"
    /\ nreads = 2
    /\ last = "ArrowUp"
    /\ state.selected = Some(0)
    /\ result = Ok(Home)

\* C8 as claimed: on Enter with the selection on an entry other than ".",
\* a directory is entered (the state's directory becomes that entry,
\* selection 0) and a file's resolved path is returned.
C8_Original ==
    [][ /\ prog = "FileInput"
        /\ pc = "match"
        /\ last = "Enter"
        /\ HasSelectedEntry
        /\ SelectedEntry.name # <<".">>
        => IF SelectedEntry.is_dir
           THEN /\ pc' = "read_key"
                /\ result' = NoResult
                /\ state'.path = Append(state.path, SelectedEntry.name)
                /\ state'.selected = Some(0)
           ELSE /\ pc' = "done"
                /\ result' = Ok(Append(state.path, SelectedEntry.name)) ]_vars

\* C8: on Enter, whatever is selected, a file or a directory, the call
\* returns the current directory; no entry is resolved or entered.
C8_EnterReturnsCurrentDirectory ==
    [][ prog = "FileInput" /\ pc = "match" /\ last = "Enter" =>
          /\ pc' = "done"
          /\ result' = Ok(state.path)
          /\ state' = state ]_vars

C8_Witness ==
    /\ prog = "FileInput"
    /\ pc = "done"
    /\ last = "Enter"
    /\ HasSelectedEntry
    /\ ~SelectedEntry.is_dir
    /\ result = Ok(Home)

\* C9: the candidates of complete_path(fragment, for_dir) are exactly those
\* of the entries of the lookup directory (the fragment's directory prefix,
\* or the current directory without one) whose name starts with the name
\* prefix, the directories only when for_dir is set.
C9_CandidatesOfLookupDirectory ==
    prog = "complete_path" /\ pc = "done" =>
        LET sp == split_path(cfg.path)
            lookup == read_dir(cfg.fs, IF sp.dir # None THEN sp.dir[1] ELSE <<".">>)
            listed == IF lookup # None THEN Range(lookup[1]) ELSE {}
            wanted == {e \in listed : /\ e.utf8
                                      /\ starts_with(e.name, sp.file)
                                      /\ (cfg.for_dir => e.is_dir)} IN
        Range(result.val) =
            {CompletionOf(e, IF sp.dir # None THEN sp.dir[1] ELSE <<>>) : e \in wanted}

\* the set of characters the contract of escape_path names
Special ==
    {"!", "(", ")", "<", ">", ",", "?", "]", "[", "{", "}", " ", "\\", "'", "\"",
     Backtick, "*", "^", "#", "|", "$", "&", ";"}

\* the special characters before position i of s
SpecialsBefore(s, i) == Cardinality({k \in 1..(i - 1) : s[k] \in Special})

\* C10: escape_path(path) is path with a backslash put before each of its
\* special characters and every other character copied in order; a path
\* without special characters comes back unchanged.
C10_EscapePath ==
    prog = "escape_path" /\ pc = "done" =>
        LET in == cfg.path
            out == result.val IN
        /\ result.kind = "Ok"
        /\ Len(out) = Len(in) + SpecialsBefore(in, Len(in) + 1)
        /\ \A i \in 1..Len(in) :
             LET j == i + SpecialsBefore(in, i) IN
             IF in[i] \in Special
             THEN out[j] = "\\" /\ out[j + 1] = in[i]
             ELSE out[j] = in[i]
        /\ (Range(in) \cap Special = {} => out = in)

C10_Witness ==
    /\ prog = "escape_path"
    /\ pc = "done"
    /\ cfg.path = <<";", "a">>
    /\ result = Ok(<<"\\", ";", "a">>)

\* the positions of s where an occurrence of sep starts
OccurrencesOf(sep, s) ==
    {i \in 1..(Len(s) - Len(sep) + 1) : SubSeq(s, i, i + Len(sep) - 1) = sep}

\* the occurrences of sep in s that start before position i
OccurrencesBefore(sep, s, i) == Cardinality({k \in OccurrencesOf(sep, s) : k < i})

\* out begins and ends with sep, the two not overlapping
WrappedIn(sep, out) ==
    /\ Len(out) >= 2 * Len(sep)
    /\ SubSeq(out, 1, Len(sep)) = sep
    /\ SubSeq(out, Len(out) - Len(sep) + 1, Len(out)) = sep

\* C11 as claimed: for every non-empty sep, of any length, the result of
\* wrap_sep_string(sep, s) begins and ends with sep, and for every
\* occurrence of sep in s the result holds, between the two ends, an
\* occurrence of sep with a backslash right before it.
C11_Original ==
    prog = "wrap_sep_string" /\ pc = "done" /\ cfg.sep # <<>> =>
        LET sep == cfg.sep
            out == result.val
            L == Len(sep) IN
        /\ WrappedIn(sep, out)
        /\ OccurrencesOf(sep, cfg.s) # {} =>
              \E j \in (L + 2)..(Len(out) - 2 * L + 1) :
                  out[j - 1] = "\\" /\ SubSeq(out, j, j + L - 1) = sep

\* C11: for every non-empty sep the result of wrap_sep_string(sep, s)
\* begins and ends with sep.  For a sep of one character, what lies between
\* is s with a backslash put before every character equal to sep and
\* nothing else changed; for a longer sep it is s itself, the occurrences
\* of sep in it not escaped.
C11_WrapSepString ==
    prog = "wrap_sep_string" /\ pc = "done" /\ cfg.sep # <<>> =>
        LET sep == cfg.sep
            in == cfg.s
            out == result.val
            L == Len(sep) IN
        /\ result.kind = "Ok"
        /\ WrappedIn(sep, out)
        /\ IF L = 1
           THEN /\ Len(out) = 2 + Len(in) + Cardinality(OccurrencesOf(sep, in))
                /\ \A i \in 1..Len(in) :
                     LET j == 1 + i + OccurrencesBefore(sep, in, i) IN
                     IF in[i] = sep[1]
                     THEN out[j] = "\\" /\ out[j + 1] = in[i]
                     ELSE out[j] = in[i]
           ELSE out = sep \o in \o sep

C11_Witness ==
    /\ prog = "wrap_sep_string"
    /\ pc = "done"
    /\ cfg.sep = <<"'">>
    /\ cfg.s = <<"a", "'", " ">>
    /\ result = Ok(<<"'", "a", "\\", "'", " ", "'">>)

\* the four prompts
Prompts == {"Confirmation", "Input", "PasswordInput", "FileInput"}

\* C12: in each of the four prompts a terminal read or write that fails
\* ends interact_on with an error result: no call ends in the panic of an
\* unwrapped terminal failure.
C12_TerminalFailureReturnsErr ==
    prog \in Prompts /\ result.kind = "panic" => result.val # "read_key"

\* a line Input rejects: an empty one that is not allowed, one a validator
\* rejects, one that does not parse into T
InputRejects(line) ==
    IF line = <<>> /\ cfg.default # None THEN FALSE
    ELSE \/ line = <<>> /\ ~cfg.permit_empty
         \/ ~AllAccept(line)
         \/ Parse(cfg.T, line) = None

\* C13: in Input and PasswordInput a rejected input (a validator's
\* rejection, an unparseable line, a password mismatch, an empty value that
\* is not allowed) never makes interact_on return a value: the call goes
\* back to a prompt, from where the next thing is a read, and it ends with
\* Err only by the failure of a terminal operation.
C13_RejectedInputNotSurfaced ==
    [][ /\ ReadStep("Input") /\ InputRejects(last') =>
              (pc' = "prompt" /\ result' = NoResult) \/ result' = Err
        /\ ReadStep("PasswordInput") /\ last' = <<>> /\ ~cfg.allow_empty_password =>
              pc' \in {"main_prompt", "confirm_prompt"} /\ result' = NoResult
        /\ ReadStep("PasswordInput") /\ pc = "confirm_read" /\ last' # password[1] =>
              (pc' \in {"main_prompt", "confirm_prompt"} /\ result' = NoResult)
              \/ result' = Err
        /\ prog = "Input" /\ pc = "prompt" /\ pc' # pc => pc' \in {"read", "done"}
        /\ prog = "PasswordInput" /\ pc = "confirm_prompt" /\ pc' # pc =>
              pc' \in {"confirm_read", "done"}
        /\ prog \in {"Input", "PasswordInput"} /\ result'.kind = "Err" => result' = Err ]_vars

C13_Witness ==
    /\ prog = "PasswordInput"
    /\ pc = "confirm_read"
    /\ nreads = 3
    /\ last = <<>>
    /\ ~cfg.allow_empty_password
    /\ password # None
    /\ result = NoResult

\* C14 as claimed: when Confirmation reads a character that is none of
\* y Y n N newline carriage-return, the prompt is drawn again and the call
\* goes on awaiting a character: the read that follows such a character
\* comes after a draw.
C14_Original ==
    [][ /\ ReadStep("Confirmation") /\ last' \notin Decisive =>
              pc' \in {"prompt", "read"} /\ result' = NoResult
        /\ ReadStep("Confirmation") /\ nreads > 0 => draws > 0 ]_vars

\* C14: when Confirmation reads a character that is none of y Y n N
\* newline carriage-return, the character is dropped, nothing is drawn or
\* cleared, the call does not return and its next step is the next read:
\* the prompt drawn before the loop is the only one.
C14_UnrecognizedIsDropped ==
    [][ /\ ReadStep("Confirmation") /\ last' \notin Decisive =>
              /\ pc' = "read"
              /\ result' = NoResult
              /\ screen' = screen
              /\ draws' = 0
        /\ ReadStep("Confirmation") =>
              /\ screen = Draw("confirmation_prompt",
                               IF cfg.show_default THEN Some(cfg.default) ELSE None)
              /\ draws = (IF nreads = 0 THEN 1 ELSE 0) ]_vars

C14_Witness ==
    /\ prog = "Confirmation"
    /\ pc = "read"
    /\ nreads = 2
    /\ last = "x"
    /\ draws = 0
    /\ screen.op = "confirmation_prompt"
    /\ result = NoResult

\* what the screen shows once FileInput has rendered the state st
Rendered(st) == Draw("file_input", Some([entries |-> st.entries, selected |-> st.selected]))

\* the three prompts that draw their prompt before they read
DrawsThenReads ==
    /\ ReadStep("Confirmation") => screen.op = "confirmation_prompt"
    /\ ReadStep("Input") => screen.op = "input_prompt" /\ draws > 0
    /\ ReadStep("PasswordInput") => screen.op = "password_prompt" /\ draws > 0

\* C15: in each of the four prompts every terminal read comes after a draw
\* of the state the call is then in: the first read of a call follows a
\* draw of the initial state, and the screen shows the current state when
\* a key is read.
C15_DrawBeforeRead ==
    [][ /\ DrawsThenReads
        /\ ReadStep("FileInput") => screen = Rendered(state) ]_vars

\* C16: in every state of the browser, whatever the directory holds
\* (nothing, or something else than at the listing before), a selected
\* index lies within the entry list of the same state.
C16_SelectedInRange ==
    prog = "FileInput" /\ state.selected # None =>
        0 <= state.selected[1] /\ state.selected[1] < Len(state.entries)

\* C17 as claimed: in every state of the browser the entry list is the
\* entry of the current directory, the entry of the parent directory, and
\* then the real names in lexicographic order, whatever the order the
\* filesystem returned them in.
C17_Original ==
    prog = "FileInput" /\ depth >= 1 => DotsThenSorted(state.entries)

\* C17: in every state of the browser the entry list is empty until the
\* first Tab and after a Tab what read_dir returned at that Tab, in the
\* order returned: no entry for the current or the parent directory is
\* added and the names are not sorted.
C17_EntriesAsListed ==
    prog = "FileInput" /\ depth >= 1 =>
        /\ state.entries \in DirListings
        /\ depth = 1 => state.entries = <<>>
        /\ \A i \in 1..Len(state.entries) :
             state.entries[i].name \notin {<<".">>, <<".", ".">>}

C17_Witness ==
    /\ prog = "FileInput"
    /\ pc = "read_key"
    /\ depth = 2
    /\ Len(state.entries) = 2
    /\ state.entries[1].name = <<"d">>
    /\ state.entries[2].name = <<"a">>

\* the places of the chain whose validator rejects the line
Rejecting(chain, line) == {i \in 1..Len(chain) : Validate(chain[i], line) # None}

\* C18: the chain built by repeated validate_with calls runs the validators
\* in the order they were registered and stops at the first that rejects:
\* the validators after it are not run and the reason shown is its reason;
\* the line goes on to be parsed only if every validator accepted it.
C18_ValidatorChain ==
    [][ /\ ReadStep("Input")
        /\ ~(last' = <<>> /\ (cfg.default # None \/ ~cfg.permit_empty))
        => LET line == last'
               chain == cfg.validator
               rej == Rejecting(chain, line) IN
           IF rej = {}
           THEN /\ vcalls' = chain
                /\ \/ result' = Err
                   \/ screen'.op = "single_prompt_selection"
                   \/ screen' = Draw("error", Some("parse error"))
           ELSE LET first == CHOOSE i \in rej : \A j \in rej : i <= j IN
                /\ vcalls' = SubSeq(chain, 1, first)
                /\ result'.kind # "Ok"
                /\ \/ result' = Err
                   \/ /\ screen' = Draw("error", Validate(chain[first], line))
                      /\ pc' = "prompt" ]_vars

C18_Witness ==
    /\ prog = "Input"
    /\ pc = "prompt"
    /\ cfg.validator = <<"short", "no1">>
    /\ vcalls = <<"short">>
    /\ last = <<"1", "1">>
    /\ screen = Draw("error", Some("too long"))

\* C19: PasswordInput with allow_empty_password false: an empty secure line,
\* read under the main prompt or under the confirmation prompt, sends the
\* call back to the same prompt, nothing is drawn for it (no error line)
\* and no value is kept; the value interact_on returns is never empty.
C19_EmptyPasswordReprompted ==
    [][ /\ ReadStep("PasswordInput") /\ ~cfg.allow_empty_password /\ last' = <<>> =>
              /\ pc' = (IF pc = "main_read" THEN "main_prompt" ELSE "confirm_prompt")
              /\ result' = NoResult
              /\ screen' = screen
              /\ screen'.op = "password_prompt"
              /\ password' = password
        /\ prog = "PasswordInput" /\ ~cfg.allow_empty_password /\ result'.kind = "Ok" =>
              result'.val # <<>> ]_vars

C19_Witness ==
    /\ prog = "PasswordInput"
    /\ ~cfg.allow_empty_password
    /\ cfg.confirmation_prompt = None
    /\ pc = "done"
    /\ nreads = 3
    /\ result.kind = "Ok"
    /\ result.val # <<>>

\* the keys C20 is about: a literal character other than Tab, and Enter
\* when the selection is on no entry
OtherKeyCase(k, st) ==
    \/ k = "Char_a"
    \/ k = "Enter" /\ (st.selected = None \/ st.selected[1] >= Len(st.entries))

\* C20: in FileInput a key that is neither a navigation key nor Enter on a
\* selected entry (Enter with nothing selected, a literal character) ends
\* the call at that key: once the state is rendered the match returns the
\* current directory, the state is left as it was and no other key is read.
C20_OtherKeyReturnsCurrentDirectory ==
    [][ /\ prog = "FileInput" /\ pc = "render" /\ OtherKeyCase(last, state) =>
              /\ pc' \in {"match", "done"}
              /\ pc' = "done" => result'.kind \in {"Err", "panic"}
              /\ state' = state
              /\ nreads' = nreads
        /\ prog = "FileInput" /\ pc = "match" /\ OtherKeyCase(last, state) =>
              /\ pc' = "done"
              /\ result' = Ok(state.path)
              /\ state' = state
              /\ nreads' = nreads ]_vars

C20_Witness ==
    /\ prog = "FileInput"
    /\ pc = "done"
    /\ nreads = 3
    /\ last = "Char_a"
    /\ Len(state.entries) = 3
    /\ result = Ok(Home)

\* C21: an entry whose name is not UTF-8 is skipped without an error or an
\* abort: complete_path builds no candidate from it, and the browser that
\* has listed it goes on, its rendering never ending the call in a panic.
C21_NonUtf8Skipped ==
    /\ prog = "complete_path" /\ pc = "done" =>
          LET sp == split_path(cfg.path)
              dir_orig == IF sp.dir # None THEN sp.dir[1] ELSE <<>> IN
          /\ result.kind = "Ok"
          /\ \A e \in Range(cfg.fs.cwd) \cup Range(cfg.fs.sub) :
               ~e.utf8 => CompletionOf(e, dir_orig) \notin Range(result.val)
    /\ prog = "FileInput" /\ result.kind = "panic" => result.val # "to_str"

\* C22 as claimed: the nested activations of inner_loop do not grow with
\* the keys pressed: a step that stays in the same directory, such as a
\* Tab, adds none.
C22_Original ==
    [][ prog = "FileInput" /\ state'.path = state.path => depth' <= depth ]_vars

\* C22: during one interact call the nested activations of inner_loop are
\* one more than the Tab keys processed: interact_on opens the first, every
\* Tab that goes on opens one more, in the same directory, and no other
\* step opens or closes one before the call ends.
C22_DepthGrowsWithTab ==
    [][ prog = "FileInput" =>
          depth' = (IF pc = "start" /\ pc' = "read_key" THEN 1
                    ELSE IF pc = "match" /\ last = "Tab" /\ pc' = "read_key"
                         THEN depth + 1
                         ELSE depth) ]_vars

C22_Witness ==
    /\ prog = "FileInput"
    /\ pc = "read_key"
    /\ nreads = 3
    /\ depth = 4
    /\ state.path = Home

\* the characters that open and close a quoted segment
Quotes == {Backtick, "\""}

\* the quote that is open after the first i characters of s, "N" for none:
\* a quote opens a segment when none is open and only the same quote
\* closes it
RECURSIVE OpenAt(_, _)
OpenAt(s, i) ==
    IF i = 0 THEN "N"
    ELSE LET o == OpenAt(s, i - 1)
             c == s[i] IN
         IF c \notin Quotes THEN o
         ELSE IF o = "N" THEN c
         ELSE IF c = o THEN "N" ELSE o

\* the spaces of s that lie outside every quoted segment
OutsideSpaces(s) == {i \in 1..Len(s) : s[i] = " " /\ OpenAt(s, i) = "N"}

AllSpaces(s) == {i \in 1..Len(s) : s[i] = " "}

Backslashes(s) == Cardinality({i \in 1..Len(s) : s[i] = "\\"})

\* out is in with a backslash put before the characters at the places esc
\* and nothing else changed
EscapedAt(in, esc, out) ==
    /\ Len(out) = Len(in) + Cardinality(esc)
    /\ \A i \in 1..Len(in) :
         LET j == i + Cardinality({k \in esc : k <= i}) IN
         /\ out[j] = in[i]
         /\ i \in esc => out[j - 1] = "\\"

\* with a non-empty sep no space gets a backslash: the backslashes added
\* are those before the characters equal to a sep of one character
NoSpaceEscaped(sep, in, out) ==
    Backslashes(out) =
        Backslashes(in) + (IF Len(sep) = 1 THEN Cardinality(OccurrencesOf(sep, in)) ELSE 0)

\* C23 as claimed: with an empty sep wrap_sep_string puts a backslash
\* before every space of the input, those between two backticks or two
\* double quotes too; with a non-empty sep no space is escaped.
C23_Original ==
    prog = "wrap_sep_string" /\ pc = "done" =>
        IF cfg.sep = <<>>
        THEN EscapedAt(cfg.s, AllSpaces(cfg.s), result.val)
        ELSE NoSpaceEscaped(cfg.sep, cfg.s, result.val)

\* C23: with an empty sep wrap_sep_string puts a backslash before the
\* spaces that lie outside a quoted segment and before nothing else: a
\* space after a backtick or a double quote that the same character has
\* not closed yet is copied as it is.  With a non-empty sep no space is
\* escaped.
C23_SpacesOutsideQuotes ==
    prog = "wrap_sep_string" /\ pc = "done" =>
        IF cfg.sep = <<>>
        THEN EscapedAt(cfg.s, OutsideSpaces(cfg.s), result.val)
        ELSE NoSpaceEscaped(cfg.sep, cfg.s, result.val)

C23_Witness ==
    /\ prog = "wrap_sep_string"
    /\ pc = "done"
    /\ cfg.sep = <<>>
    /\ cfg.s = <<Backtick, " ", Backtick>>
    /\ result = Ok(<<Backtick, " ", Backtick>>)

\* C24: no step of FileInput changes the directory: in every state of the
\* browser the path is the configured default, whatever keys were read and
\* whatever the directory holds, and a call that returns Ok returns
\* exactly the configured default.
C24_PathNeverChanges ==
    prog = "FileInput" =>
        /\ depth >= 1 => cfg.default # None /\ state.path = cfg.default[1]
        /\ result.kind = "Ok" => result.val = cfg.default[1]

C24_Witness ==
    /\ prog = "FileInput"
    /\ pc = "done"
    /\ depth = 3
    /\ last = "Enter"
    /\ HasSelectedEntry
    /\ SelectedEntry.is_dir
    /\ state.path = Home
    /\ result = Ok(Home)

====
